---- MODULE Spec2Model ----
(***************************************************************************)
(* A model of github.com/f9a/mail: the SMTP transmitter Tx (Send,          *)
(* UpdateTxConfig, Dial, New), the in-memory recorder MemRecorder, and the *)
(* message Template with its attachment processor.                        *)
(***************************************************************************)
EXTENDS Integers, Sequences, FiniteSets, TLC

VARIABLES
    \* ---- Tx (the transmitter) ----
    cfg,        \* Tx.cfg    : the atomic.Value holding a TxConfig
    dialer,     \* Tx.dialer : the atomic.Value holding a *mail.Dialer
    ctor,       \* the constructor call that made the transmitter, and its err
    updates,    \* number of UpdateTxConfig calls begun
    upc,        \* per updater: position inside UpdateTxConfig
    ucfg,       \* per updater: the cfg argument of the running call
    sends,      \* number of Send calls begun
    pc,         \* per sender: position inside Tx.Send
    call,       \* per sender: the arguments of the running call
    lcfg,       \* per sender: the value loaded from tx.cfg (line 114)
    ldialer,    \* per sender: the value loaded from tx.dialer (line 151)
    m,          \* per sender: the mail.Message being built
    tmp,        \* per sender: tempDirName and whether it was created
    idx,        \* per sender: index of the next attachment to write
    err,        \* per sender: the named result err
    wire,       \* per sender: what DialAndSend did in this call
    fs,         \* the filesystem: temporary directory -> (file name -> content)
    \* ---- MemRecorder ----
    Mails,      \* MemRecorder.Mails
    rcfg,       \* MemRecorder.cfg : the atomic.Value holding a TxConfig
    seen,       \* the last Seen call: its argument and its result
    rsent,      \* the last MemRecorder.Send call: its arguments and its result
    \* ---- Template ----
    tpl,        \* the Template built by NewTemplate
    heap,       \* the maps Template values refer to: reference -> FuncMap
    tplErr,     \* the error returned by NewTemplate
    out,        \* the last Execute call: its arguments and its results
    \* ---- processAttachments ----
    paAllowed,  \* the argument allowed
    paIn,       \* the argument attachments
    paOut,      \* the results aa, err
    \* ---- TxConfig.Validate ----
    vcfg,       \* the receiver cfg
    verr        \* the call's result: whether it ran, and its error

txVars == <<cfg, dialer, ctor, updates, upc, ucfg, sends, pc, call, lcfg,
            ldialer, m, tmp, idx, err, wire, fs>>

-----------------------------------------------------------------------------
(* Bounds of the model *)

MaxSends == 1
MaxUpdates == 1
MaxAttachments == 2

\* one caller issues its Sends one after the other, while another caller
\* issues UpdateTxConfigs; the steps of the two interleave freely
Senders == {"s1"}
Updaters == {"u1"}

-----------------------------------------------------------------------------
(* Errors: a kind and the wrapped cause *)

\* cause: the set of strings the error was built from (%v), {} when none
Error(kind, cause) == [kind |-> kind, cause |-> cause]
NilErr == Error("nil", {})
ErrFromEmpty == Error("from cannot be empty", {})
ErrToEmpty == Error("at least one 'to' email-address must be given", {})
ErrNotConfigured == Error("transmitter is not configured, yet", {})
ErrTmpDir(e) == Error("couldn't create tmp-dir for attachments", {e})
ErrExtension(e) == Error("Couldn't find extension for mime-type", {e})
ErrWrite(e) == Error("Couldn't write attachment to tmp-dir", {e})
\* ozzo-validation's Errors: one entry per field that failed
ErrValidation(fields) == Error("validation", fields)

\* what the operating system and the SMTP transport can answer
TransportErrors == {Error("dial tcp: connection refused", {}), Error("EOF", {})}
OsMkdirError == "mkdir: permission denied"
OsWriteError == "write: no space left on device"
MimeError == "mime: no media type"
ErrRemove == Error("unlinkat: permission denied", {})

-----------------------------------------------------------------------------
(* TxConfig and its validation *)

MaxPort == 49151

TxConfig(user, password, host, port, tmpDir) ==
    [User |-> user, Password |-> password, Host |-> host, Port |-> port,
     TmpDir |-> tmpDir]

ZeroConfig == TxConfig("", "", "", 0, "")

\* oz.Required rejects the zero value of the field's type: "" and 0
Required(v, zero) == v # zero

\* the names of the fields that fail their rules
InvalidFields(c) ==
    {f \in {"User", "Password", "Host"} : ~Required(c[f], "")}
    \cup (IF Required(c.Port, 0) /\ c.Port >= 0 /\ c.Port <= MaxPort
          THEN {} ELSE {"Port"})

Validate(c) ==
    IF InvalidFields(c) = {} THEN NilErr ELSE ErrValidation(InvalidFields(c))

\* mail.NewDialer(host, port, user, password)
NewDialer(host, port, user, password) ==
    [Host |-> host, Port |-> port, Username |-> user, Password |-> password]

ZeroDialer == NewDialer("", 0, "", "")

\* an atomic.Value: empty, or holding a value (gen names the call that stored it)
Empty(zero) == [set |-> FALSE, val |-> zero, gen |-> 0]
Stored(v, g) == [set |-> TRUE, val |-> v, gen |-> g]

cfgA == TxConfig("u1", "p1", "h1", 25, "/tmp")
cfgB == TxConfig("u2", "p2", "h2", MaxPort, "")
cfgBadPort == TxConfig("u3", "p3", "h3", 70000, "/tmp")
cfgNoUser == TxConfig("", "p1", "h1", 25, "/tmp")

DialConfigs == {cfgA, cfgBadPort, cfgNoUser}
UpdateConfigs == {cfgB, cfgBadPort}

\* New(): an unconfigured transmitter
Constructed(kind, c, e) == [kind |-> kind, cfg |-> c, err |-> e]

New == [cfg |-> Empty(ZeroConfig), dialer |-> Empty(ZeroDialer),
        ctor |-> Constructed("New", ZeroConfig, NilErr)]

\* a Dial that stores before it validates
DialStoreFirst(c) ==
    [cfg |-> Stored(c, 1),
     dialer |-> Stored(NewDialer(c.Host, c.Port, c.User, c.Password), 1),
     ctor |-> Constructed("Dial", c, Validate(c))]

\* Dial(cfg): validate, then store config and dialer (generation 1)
Dial(c) ==
    IF Validate(c) # NilErr
    THEN [cfg |-> Empty(ZeroConfig), dialer |-> Empty(ZeroDialer),
          ctor |-> Constructed("Dial", c, Validate(c))]
    ELSE [cfg |-> Stored(c, 1),
          dialer |-> Stored(NewDialer(c.Host, c.Port, c.User, c.Password), 1),
          ctor |-> Constructed("Dial", c, NilErr)]

-----------------------------------------------------------------------------
(* Messages and attachments *)

Attachment(name, kind, content) ==
    [Name |-> name, Kind |-> kind, Content |-> content]

Message(topic, body, attachments, contentType) ==
    [Topic |-> topic, Body |-> body, Attachments |-> attachments,
     ContentType |-> contentType]

\* contents are byte sequences; the bytes are named tokens
PdfA == <<"%PDF-", "A">>
PdfB == <<"%PDF-", "B">>

attReportA == Attachment(<<"r">>, "application/pdf", PdfA)
attReportB == Attachment(<<"r">>, "application/pdf", PdfB)
attBinary == Attachment(<<"x">>, "application/octet-stream", <<"0">>)
attBadKind == Attachment(<<"y">>, "", <<"t">>)

\* the attachment lists of the messages handed to Send: none, one, two of
\* the same name and kind, one of a kind without a known extension, and one
\* whose kind is no media type
TxAttachmentLists ==
    {<<>>, <<attReportA>>, <<attReportA, attReportB>>,
     <<attBinary, attReportA>>, <<attReportA, attBadKind>>}

RECURSIVE SeqsUpTo(_, _)
SeqsUpTo(S, n) ==
    IF n = 0 THEN {<<>>}
    ELSE LET shorter == SeqsUpTo(S, n - 1)
         IN  shorter \cup {Append(s, x) : s \in shorter, x \in S}

TxMessages ==
    {Message("topic", "body", aa, "text/plain") : aa \in TxAttachmentLists}

Froms == {"", "a@example.de"}
Tos == {<<>>, <<"b@example.de">>, <<"b@example.de", "c@example.de">>,
        <<"b@example.de", "c@example.de", "d@example.de">>}

-----------------------------------------------------------------------------
(* writeFile *)

\* mime.ExtensionsByType fails when the type does not parse as a media type
MimeParseFails(kind) == kind = ""

\* mime.ExtensionsByType: the known extensions, <<>> (nil) when none is known
ExtensionsByType(kind) ==
    CASE kind = "application/pdf" -> <<".pdf">>
      [] kind = "image/png" -> <<".png">>
      [] kind = "text/plain; charset=utf-8" -> <<".txt">>
      [] OTHER -> <<>>

FileExt(kind) ==
    IF ExtensionsByType(kind) = <<>> THEN <<"unknown">>
    ELSE <<ExtensionsByType(kind)[1]>>

\* fmt.Sprintf("%s%s", a.Name, ext): the name of the file inside the directory
FileName(a) == a.Name \o FileExt(a.Kind)

\* os.TempDir()
OsTempDir == "/tmp"

TempRoot(c) == IF c.TmpDir = "" THEN OsTempDir ELSE c.TmpDir

\* ioutil.TempDir(dir, "f9a-mail"): a name that does not exist yet
FreshDir(root) ==
    LET n == CHOOSE k \in 1..(Cardinality(DOMAIN fs) + 1) :
                 /\ [root |-> root, n |-> k] \notin DOMAIN fs
                 /\ \A j \in 1..(k - 1) : [root |-> root, n |-> j] \in DOMAIN fs
    IN  [root |-> root, n |-> n]

NoDir == [root |-> "", n |-> 0]

\* a function with one more (or one overwritten) point
Put(f, k, v) == [x \in DOMAIN f \cup {k} |-> IF x = k THEN v ELSE f[x]]
\* a function without the points of D
Drop(f, D) == [x \in DOMAIN f \ D |-> f[x]]
EmptyFn == [x \in {} |-> 0]

-----------------------------------------------------------------------------
(* Tx.Send *)

SendOptions(asCc) == [asCc |-> asCc]

NoCall == [from |-> "", to |-> <<>>, message |-> Message("", "", <<>>, ""),
           opts |-> SendOptions(FALSE)]

\* a value loaded from an atomic.Value, or nothing loaded yet
NotLoaded(zero) == [loaded |-> FALSE, set |-> FALSE, val |-> zero, gen |-> 0]
Load(slot) == [loaded |-> TRUE, set |-> slot.set, val |-> slot.val, gen |-> slot.gen]

\* mail.NewMessage()
NewMessage ==
    [From |-> <<>>, To |-> <<>>, Cc |-> <<>>, Bcc |-> <<>>, Subject |-> "",
     ContentType |-> "", Body |-> "", Attach |-> <<>>]

NoTmp == [created |-> FALSE, dir |-> NoDir]

NoWire == [dialed |-> FALSE, result |-> NilErr, dialer |-> ZeroDialer,
           msg |-> NewMessage, files |-> <<>>]

\* precondition checks that forget the check on from
SendArgsErrorToOnly(from, to) ==
    IF Len(to) = 0 THEN ErrToEmpty ELSE NilErr

\* the precondition checks on from and to
SendArgsError(from, to) ==
    IF from = "" THEN ErrFromEmpty
    ELSE IF Len(to) = 0 THEN ErrToEmpty
    ELSE NilErr

\* headers that put the further recipients into Bcc whatever the options say
BuildMessageBccOnly(from, to, message, opts) ==
    [NewMessage EXCEPT
        !.From = <<from>>,
        !.To = <<to[1]>>,
        !.Bcc = IF Len(to) > 1 THEN Tail(to) ELSE <<>>,
        !.Subject = message.Topic,
        !.ContentType = message.ContentType,
        !.Body = message.Body]

\* the headers and the body set on the new message
BuildMessage(from, to, message, opts) ==
    [NewMessage EXCEPT
        !.From = <<from>>,
        !.To = <<to[1]>>,
        !.Cc = IF Len(to) > 1 /\ opts.asCc THEN Tail(to) ELSE <<>>,
        !.Bcc = IF Len(to) > 1 /\ ~opts.asCc THEN Tail(to) ELSE <<>>,
        !.Subject = message.Topic,
        !.ContentType = message.ContentType,
        !.Body = message.Body]

\* a deferred function that keeps an error of the function body
DeferredErrKeepFirst(prev, removeErr) ==
    IF prev # NilErr THEN prev ELSE removeErr

\* the deferred function: err = os.RemoveAll(tempDirName)
DeferredErr(prev, removeErr) == removeErr

\* Send returns to its caller with the result e
Return(p, e) ==
    /\ err' = [err EXCEPT ![p] = e]
    /\ pc' = [pc EXCEPT ![p] = "returned"]

\* Send leaves the function body after the defer statement: the deferred
\* function runs next
Leave(p, e) ==
    /\ err' = [err EXCEPT ![p] = e]
    /\ pc' = [pc EXCEPT ![p] = "cleanup"]

\* lines 100-132: check the arguments, load the config, build the message
SendBegin(p, from, to, message, asCc) ==
    /\ pc[p] \in {"idle", "returned"}
    /\ sends < MaxSends
    /\ sends' = sends + 1
    /\ call' = [call EXCEPT ![p] = [from |-> from, to |-> to,
                                    message |-> message,
                                    opts |-> SendOptions(asCc)]]
    /\ ldialer' = [ldialer EXCEPT ![p] = NotLoaded(ZeroDialer)]
    /\ tmp' = [tmp EXCEPT ![p] = NoTmp]
    /\ idx' = [idx EXCEPT ![p] = 1]
    /\ wire' = [wire EXCEPT ![p] = NoWire]
    /\ IF SendArgsError(from, to) # NilErr
       THEN /\ Return(p, SendArgsError(from, to))
            /\ lcfg' = [lcfg EXCEPT ![p] = NotLoaded(ZeroConfig)]
            /\ m' = [m EXCEPT ![p] = NewMessage]
       ELSE /\ lcfg' = [lcfg EXCEPT ![p] = Load(cfg)]
            /\ IF ~cfg.set
               THEN /\ Return(p, ErrNotConfigured)
                    /\ m' = [m EXCEPT ![p] = NewMessage]
               ELSE /\ err' = [err EXCEPT ![p] = NilErr]
                    /\ pc' = [pc EXCEPT ![p] = "mkdir"]
                    /\ m' = [m EXCEPT ![p] =
                               BuildMessage(from, to, message, SendOptions(asCc))]
    /\ UNCHANGED <<cfg, dialer, ctor, updates, upc, ucfg, fs>>

\* a loop that is left after its first turn
AfterWriteFirst(p, i) ==
    IF i > 1 \/ Len(call[p].message.Attachments) = 0 THEN "loadDialer" ELSE "write"

\* where Send goes once the attachment at index i - 1 is written
AfterWrite(p, i) ==
    IF i > Len(call[p].message.Attachments) THEN "loadDialer" ELSE "write"

\* lines 134-140: ioutil.TempDir, then the defer statement
SendTempDir(p) ==
    /\ pc[p] = "mkdir"
    /\ \/ /\ Return(p, ErrTmpDir(OsMkdirError))
          /\ UNCHANGED <<tmp, fs>>
       \/ LET d == FreshDir(TempRoot(lcfg[p].val))
          IN  /\ fs' = Put(fs, d, EmptyFn)
              /\ tmp' = [tmp EXCEPT ![p] = [created |-> TRUE, dir |-> d]]
              /\ pc' = [pc EXCEPT ![p] = AfterWrite(p, 1)]
              /\ UNCHANGED err
    /\ UNCHANGED <<cfg, dialer, ctor, updates, upc, ucfg, sends, call, lcfg,
                   ldialer, m, idx, wire>>

\* a failed writeFile that returns past the deferred function
WriteFailedNoCleanup(p, e) == Return(p, e)

\* a failed writeFile: return err, out of the loop
WriteFailed(p, e) == Leave(p, e)

\* lines 142-149: one turn of the loop over message.Attachments
SendWrite(p) ==
    /\ pc[p] = "write"
    /\ LET a == call[p].message.Attachments[idx[p]]
           d == tmp[p].dir
           name == FileName(a)
       IN  IF MimeParseFails(a.Kind)
           THEN /\ WriteFailed(p, ErrExtension(MimeError))
                /\ UNCHANGED <<fs, m, idx>>
           ELSE \/ /\ WriteFailed(p, ErrWrite(OsWriteError))
                   \* ioutil.WriteFile failed: at open, or after truncating
                   /\ \/ fs' = fs
                      \/ fs' = [fs EXCEPT ![d] = Put(fs[d], name, <<>>)]
                   /\ UNCHANGED <<m, idx>>
                \/ /\ fs' = [fs EXCEPT ![d] = Put(fs[d], name, a.Content)]
                   /\ m' = [m EXCEPT ![p].Attach =
                               Append(@, [dir |-> d, name |-> name])]
                   /\ idx' = [idx EXCEPT ![p] = @ + 1]
                   /\ pc' = [pc EXCEPT ![p] = AfterWrite(p, idx[p] + 1)]
                   /\ UNCHANGED err
    /\ UNCHANGED <<cfg, dialer, ctor, updates, upc, ucfg, sends, call, lcfg,
                   ldialer, tmp, wire>>

\* lines 151-155: load the dialer
SendLoadDialer(p) ==
    /\ pc[p] = "loadDialer"
    /\ ldialer' = [ldialer EXCEPT ![p] = Load(dialer)]
    /\ IF ~dialer.set
       THEN Leave(p, ErrNotConfigured)
       ELSE /\ pc' = [pc EXCEPT ![p] = "dial"]
            /\ UNCHANGED err
    /\ UNCHANGED <<cfg, dialer, ctor, updates, upc, ucfg, sends, call, lcfg,
                   m, tmp, idx, wire, fs>>

\* the content DialAndSend reads from each attached path
AttachedFiles(msg) ==
    [i \in 1..Len(msg.Attach) |-> fs[msg.Attach[i].dir][msg.Attach[i].name]]

\* a dial step that takes host and port from the configuration loaded at
\* line 114 and only the credentials from the dialer loaded at line 151
SendDialCfgHost(p) ==
    /\ pc[p] = "dial"
    /\ \E outcome \in {NilErr} \cup TransportErrors :
          /\ wire' = [wire EXCEPT ![p] =
                         [dialed |-> TRUE, result |-> outcome,
                          dialer |-> NewDialer(lcfg[p].val.Host, lcfg[p].val.Port,
                                               ldialer[p].val.Username,
                                               ldialer[p].val.Password),
                          msg |-> m[p],
                          files |-> AttachedFiles(m[p])]]
          /\ Leave(p, outcome)
    /\ UNCHANGED <<cfg, dialer, ctor, updates, upc, ucfg, sends, call, lcfg,
                   ldialer, m, tmp, idx, fs>>

\* lines 157-159: dialer.DialAndSend(m), its result assigned to err
SendDial(p) ==
    /\ pc[p] = "dial"
    /\ \E outcome \in {NilErr} \cup TransportErrors :
          /\ wire' = [wire EXCEPT ![p] =
                         [dialed |-> TRUE, result |-> outcome,
                          dialer |-> ldialer[p].val, msg |-> m[p],
                          files |-> AttachedFiles(m[p])]]
          /\ Leave(p, outcome)
    /\ UNCHANGED <<cfg, dialer, ctor, updates, upc, ucfg, sends, call, lcfg,
                   ldialer, m, tmp, idx, fs>>

\* lines 138-140: the deferred os.RemoveAll(tempDirName)
SendCleanup(p) ==
    /\ pc[p] = "cleanup"
    /\ LET d == tmp[p].dir
       IN  \/ /\ fs' = Drop(fs, {d})
              /\ Return(p, DeferredErr(err[p], NilErr))
           \* os.RemoveAll failed: before removing anything, or part-way
           \/ /\ \/ fs' = fs
                 \/ fs' = [fs EXCEPT ![d] = EmptyFn]
              /\ Return(p, DeferredErr(err[p], ErrRemove))
    /\ UNCHANGED <<cfg, dialer, ctor, updates, upc, ucfg, sends, call, lcfg,
                   ldialer, m, tmp, idx, wire>>

-----------------------------------------------------------------------------
(* Tx.UpdateTxConfig *)

NoUpdate == [cfg |-> ZeroConfig, gen |-> 0]

\* line 164: tx.cfg.Store(cfg)
UpdateStoreCfg(u, c) ==
    /\ upc[u] = "idle"
    /\ updates < MaxUpdates
    /\ updates' = updates + 1
    /\ cfg' = Stored(c, updates + 2)
    /\ ucfg' = [ucfg EXCEPT ![u] = [cfg |-> c, gen |-> updates + 2]]
    /\ upc' = [upc EXCEPT ![u] = "storeDialer"]
    /\ UNCHANGED <<dialer, ctor, sends, pc, call, lcfg, ldialer, m, tmp, idx,
                   err, wire, fs>>

\* line 165: tx.dialer.Store(mail.NewDialer(...))
UpdateStoreDialer(u) ==
    /\ upc[u] = "storeDialer"
    /\ LET c == ucfg[u].cfg
       IN  dialer' = Stored(NewDialer(c.Host, c.Port, c.User, c.Password),
                            ucfg[u].gen)
    /\ upc' = [upc EXCEPT ![u] = "idle"]
    /\ UNCHANGED <<cfg, ctor, updates, ucfg, sends, pc, call, lcfg, ldialer,
                   m, tmp, idx, err, wire, fs>>

-----------------------------------------------------------------------------
(* MemRecorder *)

MaxMails == 2

recVars == <<Mails, rcfg, seen, rsent>>

Mail(from, to, message) == [From |-> from, To |-> to, Message |-> message]

\* bytes.Equal
BytesEqual(a, b) ==
    /\ Len(a) = Len(b)
    /\ \A i \in 1..Len(a) : a[i] = b[i]

\* one turn of the loop of Seen over r.Mails: FALSE where the code returns
\* false, TRUE where it goes on to the next entry
EntryMatches(r, x) ==
    IF r.From # x.From THEN FALSE
    ELSE IF Len(r.To) # Len(x.To) THEN FALSE
    ELSE IF \E i \in 1..Len(r.To) : r.To[i] # x.To[i] THEN FALSE
    ELSE IF \/ r.Message.Body # x.Message.Body
            \/ r.Message.ContentType # x.Message.ContentType
            \/ r.Message.Topic # x.Message.Topic THEN FALSE
    ELSE IF Len(r.Message.Attachments) # Len(x.Message.Attachments) THEN FALSE
    ELSE IF \E i \in 1..Len(r.Message.Attachments) :
               LET a == r.Message.Attachments[i]
                   a2 == x.Message.Attachments[i]
               IN  \/ ~BytesEqual(a.Content, a2.Content)
                   \/ a.Kind # a2.Kind
                   \/ a.Name # a2.Name THEN FALSE
    ELSE TRUE

\* the loop of Seen from entry i on
RECURSIVE SeenFrom(_, _, _)
SeenFrom(mails, i, x) ==
    IF i > Len(mails) THEN TRUE
    ELSE IF ~EntryMatches(mails[i], x) THEN FALSE
    ELSE SeenFrom(mails, i + 1, x)

\* a Seen that answers whether any recorded entry matches
SeenAny(mails, x) == \E i \in 1..Len(mails) : EntryMatches(mails[i], x)

\* MemRecorder.Seen: ok (err is always nil)
Seen(mails, x) ==
    IF Len(mails) = 0 THEN FALSE ELSE SeenFrom(mails, 1, x)

recBase == Message("topic", "body", <<attReportA>>, "text/plain")

\* the messages handed to the recorder: one base message and messages that
\* differ from it in one field, or in one field of its attachment
RecMessages ==
    {recBase,
     [recBase EXCEPT !.Topic = "other topic"],
     [recBase EXCEPT !.Body = "other body"],
     [recBase EXCEPT !.ContentType = "text/html"],
     [recBase EXCEPT !.Attachments = <<>>],
     [recBase EXCEPT !.Attachments = <<attReportA, attReportA>>],
     [recBase EXCEPT !.Attachments = <<attReportB>>],
     [recBase EXCEPT !.Attachments = <<[attReportA EXCEPT !.Name = <<"s">>]>>],
     [recBase EXCEPT !.Attachments = <<[attReportA EXCEPT !.Kind = "image/png"]>>]}

recTo == <<"b@example.de", "c@example.de">>

\* the mails of the model: any message from a@ to b@ and c@, and the base
\* message with another from, or another to
RecMails ==
    {Mail("a@example.de", recTo, msg) : msg \in RecMessages}
    \cup {Mail(from, recTo, recBase) : from \in {"", "z@example.de"}}
    \cup {Mail("a@example.de", to, recBase) :
            to \in {<<>>, <<"b@example.de">>, <<"c@example.de", "b@example.de">>}}

NoSeen == [called |-> FALSE, m |-> Mail("", <<>>, Message("", "", <<>>, "")),
           ok |-> FALSE, err |-> NilErr]

NoSent == [called |-> FALSE, from |-> "", to |-> <<>>,
           message |-> Message("", "", <<>>, ""), err |-> NilErr]

\* a recorder Send that checks from as Tx.Send does, recording nothing then
RecSendChecked(from, to, message, asCc) ==
    /\ Len(Mails) < MaxMails
    /\ Mails' = IF from = "" THEN Mails ELSE Append(Mails, Mail(from, to, message))
    /\ rsent' = [called |-> TRUE, from |-> from, to |-> to, message |-> message,
                 err |-> IF from = "" THEN ErrFromEmpty ELSE NilErr]
    /\ UNCHANGED <<rcfg, seen>>

\* MemRecorder.Send: append, return nil
RecSend(from, to, message, asCc) ==
    /\ Len(Mails) < MaxMails
    /\ Mails' = Append(Mails, Mail(from, to, message))
    /\ rsent' = [called |-> TRUE, from |-> from, to |-> to,
                 message |-> message, err |-> NilErr]
    /\ UNCHANGED <<rcfg, seen>>

\* MemRecorder.Seen
RecSeen(x) ==
    /\ seen' = [called |-> TRUE, m |-> x, ok |-> Seen(Mails, x), err |-> NilErr]
    /\ UNCHANGED <<Mails, rcfg, rsent>>

\* MemRecorder.UpdateTxConfig
RecUpdateTxConfig(c) ==
    /\ rcfg' = Stored(c, 0)
    /\ UNCHANGED <<Mails, seen, rsent>>

RecInit ==
    /\ Mails = <<>>
    /\ rcfg = Empty(ZeroConfig)
    /\ seen = NoSeen
    /\ rsent = NoSent

-----------------------------------------------------------------------------
(* processAttachments and http.DetectContentType *)

paVars == <<paAllowed, paIn, paOut>>

RequestAttachment(name, content) == [Name |-> name, Content |-> content]

TextPlain == "text/plain; charset=utf-8"

\* the bytes that are text
TextBytes == {"t", "u"}

\* http.DetectContentType: the signature at the start of the content decides;
\* without one, text when every byte is text, else application/octet-stream
DetectContentType(content) ==
    IF Len(content) = 0 THEN TextPlain
    ELSE IF content[1] = "%PDF-" THEN "application/pdf"
    ELSE IF content[1] = "<89>PNG" THEN "image/png"
    ELSE IF \A i \in 1..Len(content) : content[i] \in TextBytes THEN TextPlain
    ELSE "application/octet-stream"

ErrMimeNotAllowed(mimeType) == Error("MIME Type is not allowed", {mimeType})

\* what processAttachments returns; examined counts the attachments whose
\* type it detected
PaResult(aa, e, examined) == [aa |-> aa, err |-> e, examined |-> examined]

\* a loop that goes on after a violation and reports the last one
RECURSIVE processLast(_, _, _, _, _)
processLast(allowed, attachments, i, aa, e) ==
    IF i > Len(attachments) THEN PaResult(aa, e, i - 1)
    ELSE LET mimeType == DetectContentType(attachments[i].Content)
         IN  IF mimeType \notin allowed
             THEN processLast(allowed, attachments, i + 1, aa,
                              ErrMimeNotAllowed(mimeType))
             ELSE processLast(allowed, attachments, i + 1,
                              Append(aa, Attachment(attachments[i].Name,
                                         mimeType, attachments[i].Content)), e)

processAttachmentsLast(allowed, attachments) ==
    processLast(allowed, attachments, 1, <<>>, NilErr)

\* a loop that leaves out the attachments whose type is not allowed
RECURSIVE processSkip(_, _, _, _)
processSkip(allowed, attachments, i, aa) ==
    IF i > Len(attachments) THEN PaResult(aa, NilErr, i - 1)
    ELSE LET mimeType == DetectContentType(attachments[i].Content)
         IN  IF mimeType \notin allowed
             THEN processSkip(allowed, attachments, i + 1, aa)
             ELSE processSkip(allowed, attachments, i + 1,
                              Append(aa, Attachment(attachments[i].Name,
                                         mimeType, attachments[i].Content)))

processAttachmentsSkip(allowed, attachments) ==
    processSkip(allowed, attachments, 1, <<>>)

\* the loop of processAttachments from attachment i on, aa built so far
RECURSIVE processFrom(_, _, _, _)
processFrom(allowed, attachments, i, aa) ==
    IF i > Len(attachments) THEN PaResult(aa, NilErr, i - 1)
    ELSE LET mimeType == DetectContentType(attachments[i].Content)
         IN  IF mimeType \notin allowed
             THEN PaResult(aa, ErrMimeNotAllowed(mimeType), i)
             ELSE processFrom(allowed, attachments, i + 1,
                              Append(aa, Attachment(attachments[i].Name,
                                         mimeType, attachments[i].Content)))

processAttachments(allowed, attachments) ==
    processFrom(allowed, attachments, 1, <<>>)

MimeTypes == {"application/pdf", "image/png", TextPlain}

RequestUniverse ==
    {RequestAttachment(<<"r">>, PdfA),
     RequestAttachment(<<"i">>, <<"<89>PNG", "0">>),
     RequestAttachment(<<"n">>, <<"t", "u">>),
     RequestAttachment(<<"b">>, <<"t", "0">>),
     RequestAttachment(<<"e">>, <<>>)}

NoPaResult == [called |-> FALSE, res |-> PaResult(<<>>, NilErr, 0)]

PaInit ==
    /\ paAllowed \in SUBSET MimeTypes
    /\ paIn \in SeqsUpTo(RequestUniverse, MaxAttachments)
    /\ paOut = NoPaResult

PaParked ==
    /\ paAllowed = {}
    /\ paIn = <<>>
    /\ paOut = NoPaResult

\* one call of processAttachments on the inputs
PaCall ==
    /\ ~paOut.called
    /\ paOut' = [called |-> TRUE, res |-> processAttachments(paAllowed, paIn)]
    /\ UNCHANGED <<paAllowed, paIn>>

-----------------------------------------------------------------------------
(* Template: NewTemplate, the options, Execute *)

MaxOptions == 2

tplVars == <<tpl, heap, tplErr, out>>

\* a template source is a sequence of tokens: text, {{.Field}}, {{fn}}, or
\* an action that does not parse
Lit(v) == [t |-> "lit", v |-> v]
Field(v) == [t |-> "field", v |-> v]
Call(v) == [t |-> "call", v |-> v]
Bad == [t |-> "bad", v |-> "{{"]

NoProg == [name |-> "", src |-> <<>>, funcs |-> EmptyFn]

\* template.New(name).Funcs(funcs).Parse(src): the program keeps its own copy
\* of the functions; a call of a function that is not in it does not parse
Parse(name, src, funcs) ==
    IF \E i \in 1..Len(src) : src[i].t = "bad"
    THEN [prog |-> NoProg, err |-> Error("template: unexpected action", {name})]
    ELSE IF \E i \in 1..Len(src) : src[i].t = "call" /\ src[i].v \notin DOMAIN funcs
    THEN [prog |-> NoProg, err |-> Error("template: function not defined", {name})]
    ELSE [prog |-> [name |-> name, src |-> src, funcs |-> funcs], err |-> NilErr]

\* the text written for the tokens from i on, or the first execution error
RECURSIVE executeFrom(_, _, _, _)
executeFrom(prog, data, i, buf) ==
    IF i > Len(prog.src) THEN [s |-> buf, err |-> NilErr]
    ELSE LET tok == prog.src[i]
         IN  IF tok.t = "lit" THEN executeFrom(prog, data, i + 1, Append(buf, tok.v))
             ELSE IF tok.t = "call"
             THEN executeFrom(prog, data, i + 1, Append(buf, prog.funcs[tok.v]))
             ELSE IF tok.v \in DOMAIN data
             THEN executeFrom(prog, data, i + 1, Append(buf, data[tok.v]))
             ELSE [s |-> <<>>, err |-> Error("template: can't evaluate field", {tok.v})]

\* executeTemplate: the rendered text (a sequence of pieces), "" on error
executeTemplate(prog, data) == executeFrom(prog, data, 1, <<>>)

Template(topic, body, allowed, funcs, contentType, attachments) ==
    [topic |-> topic, body |-> body, allowedAttachmentTypes |-> allowed,
     funcs |-> funcs, contentType |-> contentType, attachments |-> attachments]

\* the zero Message of Execute's named result: rendered text is a sequence
TplZeroMessage == Message(<<>>, <<>>, <<>>, "")

makeAllowedAttachmentTypesIdx(types) == {types[i] : i \in 1..Len(types)}

\* the options: functions from *Template, named by what they do
Option(op, types, kind, funcs, attachments) ==
    [op |-> op, types |-> types, kind |-> kind, funcs |-> funcs,
     attachments |-> attachments]
AllowAttachments(types) == Option("AllowAttachments", types, "", EmptyFn, <<>>)
ContentType(kind) == Option("ContentType", <<>>, kind, EmptyFn, <<>>)
TemplateFuncs(funcs) == Option("TemplateFuncs", <<>>, "", funcs, <<>>)
WithAttachments(attachments) == Option("WithAttachments", <<>>, "", EmptyFn, attachments)

\* for k, fun := range funcs { opts.funcs[k] = fun }
MergeFuncs(into, funcs) ==
    [k \in DOMAIN into \cup DOMAIN funcs |->
        IF k \in DOMAIN funcs THEN funcs[k] ELSE into[k]]

\* opt(&tpl): st.tpl is the Template the option was handed, st.heap the maps
ApplyOption(o, st) ==
    CASE o.op = "AllowAttachments" ->
            [st EXCEPT !.tpl.allowedAttachmentTypes =
                          makeAllowedAttachmentTypesIdx(o.types)]
      [] o.op = "ContentType" -> [st EXCEPT !.tpl.contentType = o.kind]
      [] o.op = "TemplateFuncs" ->
            [st EXCEPT !.heap[st.tpl.funcs] = MergeFuncs(@, o.funcs)]
      [] o.op = "WithAttachments" -> [st EXCEPT !.tpl.attachments = o.attachments]

RECURSIVE ApplyOptions(_, _, _)
ApplyOptions(opts, i, st) ==
    IF i > Len(opts) THEN st
    ELSE ApplyOptions(opts, i + 1, ApplyOption(opts[i], st))

\* the reference of the FuncMap made by NewTemplate
FuncsRef == 1

\* NewTemplate(topic, body, options...): tpl, err, and the maps it made
NewTemplate(topic, body, options) ==
    LET st == ApplyOptions(options, 1,
                  [tpl |-> Template(NoProg, NoProg, {}, FuncsRef, "text/plain", <<>>),
                   heap |-> [r \in {FuncsRef} |-> [k \in {"timef"} |-> "timef"]]])
        ptopic == Parse("subject", topic, st.heap[FuncsRef])
        pbody == Parse("body", body, st.heap[FuncsRef])
    IN  IF ptopic.err # NilErr
        THEN [tpl |-> st.tpl, heap |-> st.heap, err |-> ptopic.err]
        ELSE IF pbody.err # NilErr
        THEN [tpl |-> [st.tpl EXCEPT !.topic = ptopic.prog], heap |-> st.heap,
              err |-> pbody.err]
        ELSE [tpl |-> [st.tpl EXCEPT !.topic = ptopic.prog, !.body = pbody.prog],
              heap |-> st.heap, err |-> NilErr]

ErrWrongAttachment(e) == Error("wrong attachment", {e.kind} \cup e.cause)

\* Template.Execute on the copy t of the receiver: msg, err, and the maps
Execute(t, h, data, opts) ==
    LET st == ApplyOptions(opts, 1, [tpl |-> t, heap |-> h])
        topic == executeTemplate(st.tpl.topic, data)
        body == executeTemplate(st.tpl.body, data)
        pa == processAttachments(st.tpl.allowedAttachmentTypes, st.tpl.attachments)
    IN  IF topic.err # NilErr
        THEN [msg |-> TplZeroMessage, err |-> topic.err, heap |-> st.heap]
        ELSE IF body.err # NilErr
        THEN [msg |-> [TplZeroMessage EXCEPT !.Topic = topic.s],
              err |-> body.err, heap |-> st.heap]
        ELSE IF pa.err # NilErr
        THEN [msg |-> [TplZeroMessage EXCEPT !.Topic = topic.s, !.Body = body.s],
              err |-> ErrWrongAttachment(pa.err), heap |-> st.heap]
        ELSE [msg |-> Message(topic.s, body.s, pa.aa, st.tpl.contentType),
              err |-> NilErr, heap |-> st.heap]

reqPdf == RequestAttachment(<<"r">>, PdfA)
reqPng == RequestAttachment(<<"i">>, <<"<89>PNG", "0">>)

\* the options handed to Execute, one of each kind
OptionUniverse ==
    {AllowAttachments(<<"image/png", "application/pdf">>),
     ContentType("text/html"),
     TemplateFuncs([k \in {"upper"} |-> "upper"]),
     WithAttachments(<<reqPng, reqPdf>>)}

\* the (topic, body) sources handed to NewTemplate
TemplateSources ==
    {<<<<Field("Name"), Lit(" says hello!")>>, <<Field("Quote")>>>>,
     <<<<Lit("news")>>, <<Lit("at "), Call("timef")>>>>,
     <<<<Field("Quote")>>, <<Lit("text")>>>>,
     <<<<Call("upper"), Field("Name")>>, <<Lit("text")>>>>,
     <<<<Lit("news")>>, <<Bad>>>>}

\* the option lists handed to NewTemplate
NewTemplateOptions ==
    {<<>>,
     <<AllowAttachments(<<"application/pdf">>)>>,
     <<AllowAttachments(<<"image/png">>), WithAttachments(<<reqPdf>>)>>,
     <<TemplateFuncs([k \in {"upper"} |-> "upper"]), ContentType("text/html")>>}

\* the data contexts: struct values with these fields
DataUniverse == {[Name |-> "N", Quote |-> "Q"], [Name |-> "N"]}

NoOut == [called |-> FALSE, data |-> [Name |-> ""], opts |-> <<>>,
          msg |-> TplZeroMessage, err |-> NilErr]

TplInit ==
    /\ \E src \in TemplateSources, options \in NewTemplateOptions :
          LET new == NewTemplate(src[1], src[2], options)
          IN  /\ tpl = new.tpl
              /\ heap = new.heap
              /\ tplErr = new.err
    /\ out = NoOut

TplParked ==
    /\ tpl = Template(NoProg, NoProg, {}, FuncsRef, "", <<>>)
    /\ heap = [r \in {FuncsRef} |-> EmptyFn]
    /\ tplErr = NilErr
    /\ out = NoOut

\* tpl.Execute(data, opts...): the receiver is a copy, the maps are shared
TplExecute(data, opts) ==
    /\ tplErr = NilErr
    /\ LET res == Execute(tpl, heap, data, opts)
       IN  /\ out' = [called |-> TRUE, data |-> data, opts |-> opts,
                      msg |-> res.msg, err |-> res.err]
           /\ heap' = res.heap
    /\ UNCHANGED <<tpl, tplErr>>

-----------------------------------------------------------------------------
(* TxConfig.Validate on its own *)

valVars == <<vcfg, verr>>

\* the ports tried: below the range, its two ends, inside it, above it
ValPorts == {0 - 1, 0, 1, 25, MaxPort, MaxPort + 1, 70000}

ValConfigs ==
    {TxConfig(user, password, host, port, tmpDir) :
        user \in {"", "u1"}, password \in {"", "p1"}, host \in {"", "h1"},
        port \in ValPorts, tmpDir \in {"", "/tmp"}}

NotValidated == [called |-> FALSE, err |-> NilErr]

ValInit ==
    /\ vcfg \in ValConfigs
    /\ verr = NotValidated

ValParked ==
    /\ vcfg = ZeroConfig
    /\ verr = NotValidated

\* cfg.Validate()
ValCall ==
    /\ ~verr.called
    /\ verr' = [called |-> TRUE, err |-> Validate(vcfg)]
    /\ UNCHANGED vcfg

-----------------------------------------------------------------------------
(* The specifications *)

vars == <<txVars, recVars, tplVars, paVars, valVars>>

RecParked == RecInit

TxParked ==
    /\ cfg = New.cfg
    /\ dialer = New.dialer
    /\ ctor = New.ctor
    /\ updates = 0
    /\ upc = [u \in Updaters |-> "idle"]
    /\ ucfg = [u \in Updaters |-> NoUpdate]
    /\ sends = 0
    /\ pc = [p \in Senders |-> "idle"]
    /\ call = [p \in Senders |-> NoCall]
    /\ lcfg = [p \in Senders |-> NotLoaded(ZeroConfig)]
    /\ ldialer = [p \in Senders |-> NotLoaded(ZeroDialer)]
    /\ m = [p \in Senders |-> NewMessage]
    /\ tmp = [p \in Senders |-> NoTmp]
    /\ idx = [p \in Senders |-> 1]
    /\ err = [p \in Senders |-> NilErr]
    /\ wire = [p \in Senders |-> NoWire]
    /\ fs = EmptyFn

\* the transmitter: a constructor, then Sends and UpdateTxConfigs
TxInit ==
    /\ \E tx \in {New} \cup {Dial(c) : c \in DialConfigs} :
          /\ cfg = tx.cfg
          /\ dialer = tx.dialer
          /\ ctor = tx.ctor
    /\ updates = 0
    /\ upc = [u \in Updaters |-> "idle"]
    /\ ucfg = [u \in Updaters |-> NoUpdate]
    /\ sends = 0
    /\ pc = [p \in Senders |-> "idle"]
    /\ call = [p \in Senders |-> NoCall]
    /\ lcfg = [p \in Senders |-> NotLoaded(ZeroConfig)]
    /\ ldialer = [p \in Senders |-> NotLoaded(ZeroDialer)]
    /\ m = [p \in Senders |-> NewMessage]
    /\ tmp = [p \in Senders |-> NoTmp]
    /\ idx = [p \in Senders |-> 1]
    /\ err = [p \in Senders |-> NilErr]
    /\ wire = [p \in Senders |-> NoWire]
    /\ fs = EmptyFn

Init == TxInit /\ RecParked /\ TplParked /\ PaParked /\ ValParked

Next ==
    \/ \E p \in Senders, from \in Froms, to \in Tos, message \in TxMessages,
          asCc \in BOOLEAN :
          SendBegin(p, from, to, message, asCc)
          /\ UNCHANGED <<recVars, tplVars, paVars, valVars>>
    \/ \E p \in Senders : SendTempDir(p) /\ UNCHANGED <<recVars, tplVars, paVars, valVars>>
    \/ \E p \in Senders : SendWrite(p) /\ UNCHANGED <<recVars, tplVars, paVars, valVars>>
    \/ \E p \in Senders : SendLoadDialer(p) /\ UNCHANGED <<recVars, tplVars, paVars, valVars>>
    \/ \E p \in Senders : SendDial(p) /\ UNCHANGED <<recVars, tplVars, paVars, valVars>>
    \/ \E p \in Senders : SendCleanup(p) /\ UNCHANGED <<recVars, tplVars, paVars, valVars>>
    \/ \E u \in Updaters, c \in UpdateConfigs :
          UpdateStoreCfg(u, c) /\ UNCHANGED <<recVars, tplVars, paVars, valVars>>
    \/ \E u \in Updaters :
          UpdateStoreDialer(u) /\ UNCHANGED <<recVars, tplVars, paVars, valVars>>

Spec == Init /\ [][Next]_vars

\* the recorder: Sends, Seens and UpdateTxConfigs, one after the other
InitRec == RecInit /\ TxParked /\ TplParked /\ PaParked /\ ValParked

NextRec ==
    \/ \E mail \in RecMails, asCc \in BOOLEAN :
          RecSend(mail.From, mail.To, mail.Message, asCc)
          /\ UNCHANGED <<txVars, tplVars, paVars, valVars>>
    \/ \E mail \in RecMails : RecSeen(mail) /\ UNCHANGED <<txVars, tplVars, paVars, valVars>>
    \/ \E c \in UpdateConfigs :
          RecUpdateTxConfig(c) /\ UNCHANGED <<txVars, tplVars, paVars, valVars>>

SpecRec == InitRec /\ [][NextRec]_vars

\* one template, executed again and again
InitTpl == TplInit /\ TxParked /\ RecParked /\ PaParked /\ ValParked

NextTpl ==
    \E data \in DataUniverse, opts \in SeqsUpTo(OptionUniverse, MaxOptions) :
        TplExecute(data, opts) /\ UNCHANGED <<txVars, recVars, paVars, valVars>>

SpecTpl == InitTpl /\ [][NextTpl]_vars

\* processAttachments applied to every allow-list and attachment sequence
InitPa == PaInit /\ TxParked /\ RecParked /\ TplParked /\ ValParked

NextPa == PaCall /\ UNCHANGED <<txVars, recVars, tplVars, valVars>>

SpecPa == InitPa /\ [][NextPa]_vars

\* Validate applied to every configuration of ValConfigs
InitVal == ValInit /\ TxParked /\ RecParked /\ TplParked /\ PaParked

NextVal == ValCall /\ UNCHANGED <<txVars, recVars, tplVars, paVars>>

SpecVal == InitVal /\ [][NextVal]_vars

-----------------------------------------------------------------------------
(* Properties of Tx *)

Returned(p) == pc[p] = "returned"

\* the running (or last) call of p passed the checks on from and to
ArgsOk(p) == SendArgsError(call[p].from, call[p].to) = NilErr

\* the temporary directory of p's call is gone, with every file in it
DirAbsent(p) == tmp[p].dir \notin DOMAIN fs

\* C1 as claimed: whenever a Send that created its temporary directory has
\* returned, the directory (and so every file in it) is absent, on every
\* exit path.
C1_DirAbsentOnEveryExit ==
    \A p \in Senders : Returned(p) /\ tmp[p].created => DirAbsent(p)

\* C1 amended: every exit path of a Send that created its temporary directory
\* runs the removal; when Send has returned, the directory is absent unless
\* the removal itself failed, and then Send returns the removal error.
C1_DirAbsentUnlessRemoveFailed ==
    \A p \in Senders :
        Returned(p) /\ tmp[p].created => DirAbsent(p) \/ err[p] = ErrRemove

\* a Send whose dial step failed has returned, and its directory is gone
C1_Witness ==
    \E p \in Senders :
        /\ Returned(p) /\ tmp[p].created /\ DirAbsent(p)
        /\ wire[p].dialed /\ wire[p].result # NilErr

C3_SameGeneration ==
    \A p \in Senders :
        lcfg[p].set /\ ldialer[p].set => lcfg[p].gen = ldialer[p].gen

\* C4: a Send that finds the stored config absent, or the stored dialer
\* absent, returns the "not configured" error and transmits nothing.
C4_NotConfigured ==
    \A p \in Senders :
        /\ Returned(p) /\ ArgsOk(p)
        /\ \/ lcfg[p].loaded /\ ~lcfg[p].set
           \/ ldialer[p].loaded /\ ~ldialer[p].set
        => err[p] = ErrNotConfigured /\ ~wire[p].dialed

\* the constructor was a Dial with a config that fails validation, and no
\* UpdateTxConfig has been called since
DialFailed ==
    ctor.kind = "Dial" /\ Validate(ctor.cfg) # NilErr /\ updates = 0

\* C9: Dial with a config that fails validation returns the validation error
\* and leaves the transmitter unconfigured, without any network operation: a
\* Send on it fails as not configured.
C9_FailedDialLeavesUnconfigured ==
    DialFailed =>
        /\ ctor.err = Validate(ctor.cfg)
        /\ ~cfg.set /\ ~dialer.set
        /\ \A p \in Senders :
              /\ ~wire[p].dialed
              /\ Returned(p) /\ ArgsOk(p)
                    => err[p] = ErrNotConfigured /\ ~tmp[p].created

\* after a failed Dial, a Send with good arguments returned "not configured"
C9_Witness ==
    /\ DialFailed
    /\ \E p \in Senders : Returned(p) /\ ArgsOk(p) /\ err[p] = ErrNotConfigured

\* C10: a Send with an empty from, or an empty to, returns the local
\* validation error before any other effect: no config or dialer is loaded,
\* no temporary directory is created, nothing is dialed.
C10_ArgsCheckedFirst ==
    \A p \in Senders :
        Returned(p) /\ ~ArgsOk(p) =>
            /\ err[p] = (IF call[p].from = "" THEN ErrFromEmpty ELSE ErrToEmpty)
            /\ ~lcfg[p].loaded /\ ~ldialer[p].loaded
            /\ ~tmp[p].created /\ ~wire[p].dialed
            /\ m[p] = NewMessage

\* a configured transmitter returned the validation error for an empty to
C10_Witness ==
    \E p \in Senders :
        /\ Returned(p) /\ cfg.set /\ dialer.set
        /\ call[p].from # "" /\ call[p].to = <<>> /\ err[p] = ErrToEmpty

-----------------------------------------------------------------------------
(* Properties of MemRecorder *)

\* the log is non-empty and every recorded Mail equals x
EveryMailEquals(mails, x) ==
    /\ Len(mails) > 0
    /\ \A i \in 1..Len(mails) : mails[i] = x

\* C5: a Seen(m) answers true if and only if the log is non-empty and every
\* recorded Mail equals m, with a nil error, and it leaves the log as it was.
C5_SeenIffEveryMailEquals ==
    [][seen' # seen =>
          /\ seen'.called
          /\ seen'.ok = EveryMailEquals(Mails, seen'.m)
          /\ seen'.err = NilErr
          /\ Mails' = Mails]_vars

\* one Send, then a Seen with the same arguments answered true
C5_Witness ==
    /\ Len(Mails) = 1
    /\ seen.called /\ seen.m = Mails[1] /\ seen.ok

-----------------------------------------------------------------------------
(* Properties of Template *)

\* C6: no Execute changes the Template it is called on: its attachment list,
\* allowed types, content type and function table stay as they were.
C6_ExecuteLeavesTemplate ==
    [][tpl' = tpl /\ heap'[tpl.funcs] = heap[tpl.funcs]]_vars

\* C7: when Execute returns an error, the Message it returns is empty: no
\* Topic, no Body, no attachments, no content type.
C7_NoPartialMessage ==
    out.called /\ out.err # NilErr => out.msg = TplZeroMessage

-----------------------------------------------------------------------------
(* Properties of processAttachments *)

\* the indexes of the attachments whose detected type is not allowed
NotAllowed(allowed, attachments) ==
    {i \in 1..Len(attachments) :
        DetectContentType(attachments[i].Content) \notin allowed}

Least(S) == CHOOSE i \in S : \A j \in S : i <= j

\* C8: processAttachments succeeds if and only if the detected type of every
\* attachment is allowed; when it fails, the error names the type of the
\* first attachment that is not allowed, and no later attachment is examined.
C8_FirstViolationWins ==
    paOut.called =>
        LET bad == NotAllowed(paAllowed, paIn)
        IN  /\ paOut.res.err = NilErr <=> bad = {}
            /\ bad = {} => paOut.res.examined = Len(paIn)
            /\ bad # {} =>
                  /\ paOut.res.err =
                        ErrMimeNotAllowed(DetectContentType(paIn[Least(bad)].Content))
                  /\ paOut.res.examined = Least(bad)

\* a call failed on the first of two attachments of different types, neither
\* of them allowed
C8_Witness ==
    /\ paOut.called /\ paOut.res.err # NilErr
    /\ \E i, j \in NotAllowed(paAllowed, paIn) :
          /\ i < j
          /\ DetectContentType(paIn[i].Content) # DetectContentType(paIn[j].Content)

-----------------------------------------------------------------------------
(* Properties of TxConfig.Validate *)

\* what the range rules alone ask of a configuration
InRange(c) ==
    /\ c.User # ""
    /\ c.Password # ""
    /\ c.Host # ""
    /\ c.Port >= 0
    /\ c.Port <= MaxPort

\* C11: a configuration is accepted by Validate exactly when User, Password
\* and Host are non-empty and 0 <= Port <= 49151, so that every port of the
\* closed range, 0 included, is accepted and every port outside is rejected.
C11_AcceptedIffInRange ==
    verr.called => ((verr.err = NilErr) <=> InRange(vcfg))

-----------------------------------------------------------------------------
(* Properties of Tx: the configuration a Send dials with *)

\* the dialer UpdateTxConfig and Dial build from a configuration
DialerOf(c) == NewDialer(c.Host, c.Port, c.User, c.Password)

\* the configurations the transmitter was given: by Dial, by UpdateTxConfig
GivenConfigs(gen) == IF gen = 1 THEN {ctor.cfg} ELSE UpdateConfigs

\* C12: the host, port, user and password a Send dials with all come from
\* one single configuration given to the transmitter, the one whose call
\* stored the dialer this Send loaded.
C12_DialsWithOneConfig ==
    \A p \in Senders :
        wire[p].dialed =>
            \E c \in GivenConfigs(ldialer[p].gen) : wire[p].dialer = DialerOf(c)

\* a Send dialed although its two loads saw different calls
C12_Witness ==
    \E p \in Senders :
        /\ wire[p].dialed
        /\ lcfg[p].gen # ldialer[p].gen
        /\ wire[p].dialer = DialerOf(cfgB)

-----------------------------------------------------------------------------
(* Properties of MemRecorder.Send *)

\* the step is a MemRecorder.Send call
IsRecSend == rsent' # rsent \/ Mails' # Mails

\* C13: MemRecorder.Send returns nil for any arguments, an empty from or an
\* empty to included and whether or not a configuration was stored, and it
\* appends exactly one Mail, built from its arguments, at the end of Mails;
\* no step changes or removes an earlier entry, so the log only grows by
\* one entry per Send.
C13_SendAppendsOneMail ==
    [][/\ IsRecSend =>
            /\ rsent'.called
            /\ rsent'.err = NilErr
            /\ Mails' = Append(Mails, Mail(rsent'.from, rsent'.to, rsent'.message))
       /\ Len(Mails') >= Len(Mails)
       /\ SubSeq(Mails', 1, Len(Mails)) = Mails]_vars

\* a second Send, with an empty from and no configuration stored, was recorded
C13_Witness ==
    /\ rsent.called
    /\ rsent.from = ""
    /\ rsent.err = NilErr
    /\ ~rcfg.set
    /\ Len(Mails) = 2
    /\ Mails[2] = Mail("", recTo, recBase)
    /\ \E mail \in RecMails : mail.To = <<>> /\ Mails[1] = mail

-----------------------------------------------------------------------------
(* Properties of Tx.Send: the result after a failed removal *)

\* the step is p's deferred function, and its os.RemoveAll failed: the
\* directory is still there when Send returns
RemoveFailedStep(p) ==
    /\ pc[p] = "cleanup"
    /\ pc'[p] = "returned"
    /\ tmp[p].dir \in DOMAIN fs'

\* C14: when the removal of the temporary directory fails, Send returns the
\* removal error whatever the function body had assigned to err: it takes
\* the place of nil after a successful transmission and of an earlier write
\* or transport error.
C14_RemoveErrorReturned ==
    [][\A p \in Senders :
          RemoveFailedStep(p) =>
              /\ err'[p] = ErrRemove
              /\ err[p] \in {NilErr, ErrNotConfigured, ErrExtension(MimeError),
                            ErrWrite(OsWriteError)} \cup TransportErrors]_vars

\* a Send whose transmission failed returned the removal error instead
C14_Witness ==
    \E p \in Senders :
        /\ Returned(p) /\ tmp[p].created /\ ~DirAbsent(p)
        /\ wire[p].dialed /\ wire[p].result \in TransportErrors
        /\ err[p] = ErrRemove

-----------------------------------------------------------------------------
(* Properties of Tx.Send: a failed attachment write *)

\* p's call returned out of the attachment loop: the directory was created
\* and the dialer was never loaded
WriteFailedCall(p) ==
    /\ Returned(p)
    /\ tmp[p].created
    /\ ~ldialer[p].loaded

\* C15: when writing an attachment fails, Send aborts: nothing is dialed,
\* the attachments after the failing one are not written, and, the removal
\* of the temporary directory succeeding, Send returns the wrapped write
\* error, not nil.
C15_WriteErrorReturned ==
    \A p \in Senders :
        WriteFailedCall(p) =>
            /\ ~wire[p].dialed
            /\ idx[p] <= Len(call[p].message.Attachments)
            /\ Len(m[p].Attach) = idx[p] - 1
            /\ DirAbsent(p) =>
                  err[p] \in {ErrExtension(MimeError), ErrWrite(OsWriteError)}

-----------------------------------------------------------------------------
(* Properties of Tx.Send: the recipient headers *)

\* p's call has built its message: the checks passed and a configuration
\* was loaded
Built(p) == pc[p] # "idle" /\ ArgsOk(p) /\ lcfg[p].set

\* the addresses of a header
Addresses(header) == {header[i] : i \in 1..Len(header)}

\* C16: the first recipient is always the To header; with more than one
\* recipient all the others go to Cc when AsCc was given and to Bcc
\* otherwise, never to both and never to To; with one recipient neither Cc
\* nor Bcc is set.
C16_RecipientHeaders ==
    \A p \in Senders :
        Built(p) =>
            LET to == call[p].to
                rest == {to[i] : i \in 2..Len(to)}
            IN  /\ m[p].To = <<to[1]>>
                /\ IF call[p].opts.asCc
                   THEN Addresses(m[p].Cc) = rest /\ m[p].Bcc = <<>>
                   ELSE Addresses(m[p].Bcc) = rest /\ m[p].Cc = <<>>
                /\ Len(m[p].Cc) + Len(m[p].Bcc) = Len(to) - 1
                /\ wire[p].dialed => wire[p].msg = m[p]

\* a mail to three recipients was dialed with AsCc: two of them in Cc
C16_Witness ==
    \E p \in Senders :
        /\ wire[p].dialed
        /\ call[p].opts.asCc
        /\ Len(call[p].to) = 3
        /\ wire[p].msg.Cc = <<"c@example.de", "d@example.de">>
        /\ wire[p].msg.Bcc = <<>>

-----------------------------------------------------------------------------
(* Properties of Template.Execute: the attachments of the message *)

\* the index of the last option of kind op in opts, 0 when there is none
LastOption(opts, op) ==
    LET I == {i \in 1..Len(opts) : opts[i].op = op}
    IN  IF I = {} THEN 0 ELSE CHOOSE i \in I : \A j \in I : j <= i

\* the attachment list in force in a call: the one of the last
\* WithAttachments option of the call, else the template's
EffectiveAttachments(t, opts) ==
    IF LastOption(opts, "WithAttachments") = 0 THEN t.attachments
    ELSE opts[LastOption(opts, "WithAttachments")].attachments

\* the allow-list in force in a call: the one of the last AllowAttachments
\* option of the call, else the template's
EffectiveAllowed(t, opts) ==
    IF LastOption(opts, "AllowAttachments") = 0 THEN t.allowedAttachmentTypes
    ELSE makeAllowedAttachmentTypesIdx(opts[LastOption(opts, "AllowAttachments")].types)

\* C17: a Message returned without error by Execute has exactly one
\* Attachment per element of the call's effective attachment list, in the
\* same order, each with the Name and Content of its input, a Kind that is
\* the detected type of the content and a member of the effective
\* allow-list; with an empty effective allow-list every non-empty
\* attachment list makes Execute fail.
C17_AttachmentsMatchRequest ==
    out.called =>
        LET req == EffectiveAttachments(tpl, out.opts)
            allowed == EffectiveAllowed(tpl, out.opts)
            aa == out.msg.Attachments
        IN  /\ out.err = NilErr =>
                  /\ Len(aa) = Len(req)
                  /\ \A i \in 1..Len(req) :
                        /\ aa[i].Name = req[i].Name
                        /\ aa[i].Content = req[i].Content
                        /\ aa[i].Kind = DetectContentType(req[i].Content)
                        /\ aa[i].Kind \in allowed
            /\ allowed = {} /\ req # <<>> => out.err # NilErr

\* an Execute whose options allowed two types and named two attachments,
\* on a template that allowed neither, returned both
C17_Witness ==
    /\ out.called
    /\ out.err = NilErr
    /\ tpl.allowedAttachmentTypes = {}
    /\ tpl.attachments = <<>>
    /\ Len(out.msg.Attachments) = 2
    /\ out.msg.Attachments[1] = Attachment(<<"i">>, "image/png", <<"<89>PNG", "0">>)
    /\ out.msg.Attachments[2] = Attachment(<<"r">>, "application/pdf", PdfA)

-----------------------------------------------------------------------------
(* Properties of Tx: validated configurations *)

\* the fields Validate looks at, read back from a dialer
ConfigOf(d) == TxConfig(d.Username, d.Password, d.Host, d.Port, "")

\* C18: whatever Dial, UpdateTxConfig and Send calls came before, a
\* transmitter dials only with a configuration that passes validation: the
\* configuration a Send loaded and the dialer it dials with are valid.
C18_DialsOnlyValidated ==
    \A p \in Senders :
        wire[p].dialed =>
            /\ Validate(lcfg[p].val) = NilErr
            /\ Validate(ConfigOf(wire[p].dialer)) = NilErr

-----------------------------------------------------------------------------
(* Properties of Tx.Send: the attached files *)

\* C19: every attachment is written to a file of its own: at the dial step
\* the message has one attached file per attachment of the call, no two of
\* them the same file, and each holds the content of its attachment, also
\* when two attachments have the same Name and Kind.
C19_OneFilePerAttachment ==
    \A p \in Senders :
        wire[p].dialed =>
            LET aa == call[p].message.Attachments
                paths == wire[p].msg.Attach
            IN  /\ Len(paths) = Len(aa)
                /\ Len(wire[p].files) = Len(aa)
                /\ \A i \in 1..Len(aa) : wire[p].files[i] = aa[i].Content
                /\ \A i, j \in 1..Len(paths) : i # j => paths[i] # paths[j]

-----------------------------------------------------------------------------
(* Properties of Tx.Send: the order of its steps *)

\* every attachment of p's call is written: the message has one attached
\* path per attachment, each a file of p's directory that exists
AllWritten(p) ==
    /\ tmp[p].created
    /\ tmp[p].dir \in DOMAIN fs
    /\ Len(m[p].Attach) = Len(call[p].message.Attachments)
    /\ \A i \in 1..Len(m[p].Attach) :
          /\ m[p].Attach[i].dir = tmp[p].dir
          /\ m[p].Attach[i].name \in DOMAIN fs[tmp[p].dir]

\* p is inside a call of Send
Running(p) == pc[p] \notin {"idle", "returned"}

\* the step takes p's directory, or a file in it, away
Removes(p) ==
    /\ tmp[p].created
    /\ tmp[p].dir \in DOMAIN fs
    /\ \/ tmp[p].dir \notin DOMAIN fs'
       \/ DOMAIN fs'[tmp[p].dir] # DOMAIN fs[tmp[p].dir]
          /\ DOMAIN fs'[tmp[p].dir] \subseteq DOMAIN fs[tmp[p].dir]

\* C20: the steps of a Send are ordered: the directory is created before
\* any attachment is written, the dial/send step starts only after every
\* attachment file is written, every attached file exists when the
\* transmission starts and still when it has returned, and the directory
\* and its files are removed only by the deferred function, after the
\* dial/send step has returned (or was never started).
C20_StepOrder ==
    [][\A p \in Senders :
          /\ tmp'[p].created /\ ~tmp[p].created =>
                pc[p] = "mkdir" /\ m[p].Attach = <<>> /\ ~wire[p].dialed
          /\ m'[p].Attach # m[p].Attach /\ Running(p) =>
                pc[p] = "write" /\ tmp[p].created /\ ~wire[p].dialed
          /\ pc'[p] \in {"loadDialer", "dial"} => AllWritten(p)'
          /\ wire'[p].dialed /\ ~wire[p].dialed =>
                pc[p] = "dial" /\ AllWritten(p) /\ AllWritten(p)'
          /\ Removes(p) =>
                /\ pc[p] = "cleanup"
                /\ pc'[p] = "returned"
                /\ wire[p].dialed \/ ~ldialer[p].set]_vars

\* a Send with two attachments went through all four steps
C20_Witness ==
    \E p \in Senders :
        /\ Returned(p)
        /\ tmp[p].created
        /\ DirAbsent(p)
        /\ wire[p].dialed
        /\ Len(call[p].message.Attachments) = 2
        /\ Len(wire[p].files) = 2

====
